---- MODULE Spec2Model ----
\* Model of the ChessBot Arena session controller (src/lib/game_manager.py)
\* and of the command dispatcher that drives it (src/lib/serial_bridge.py).
\*
\* Every `with self.lock:` block of the source is one atomic action.  The
\* opponent-reply thread and the hint thread are modelled step by step, one
\* action per locked block or unlocked collaborator call.  The chess library
\* and the UCI engine are external collaborators: the model replaces them by a
\* small rules table (MoveTable) with the same interface the source uses.
EXTENDS Bags, FiniteSets, Integers, Sequences, TLC

\* ------------------------------------------------------------------ bounds
\* number of games started (resets) in one run
MaxGen == 2
\* number of moves pushed onto the board in one game
MaxPly == 2
\* number of opponent-reply threads alive at the same time
MaxTasks == 2
\* number of hint threads alive at the same time
MaxHints == 1
\* largest size of a delta handed to _classify_move
MaxDelta == 210
\* largest size of a centipawn score the engine reports
MaxCp == 5

\* ------------------------------------------------------- inputs of commands
\* START:<difficulty>,<timerMinutes>,<incrementSeconds>,<W|B>; int() accepts
\* any integer, also a negative one.  A clock of whole minutes takes sixty
\* ticks a minute to run out; the lines below start the clocks at zero (or
\* below) and let the increment put the few seconds on them that run out.
StartLines == { <<5, 0, 2, "white">>, <<3, 0, 2, "black">>, <<5, -1, 0, "white">> }
\* DEPTH:<int>
Difficulties == {3}

None == "None"
Absent == "<absent>"

\* ------------------------------------------- RulesEngine (python-chess) stub
\* A move is named by its UCI text.  color: the side whose move it is;
\* piece: the type of the piece on the from-square; to: the destination
\* square; push: a pawn move that is no capture (its SAN is the bare square);
\* ends: the terminal classification of the position after the move;
\* check: whether the move gives check; is_mate/mate/cp: the engine's score
\* of the position after the move, from White's point of view (a mated side
\* to move is reported as "mate 0"); found: the search depth from which the
\* engine answers engine.play with the move (0: never).
MoveTable ==
  [ d3e4 |-> [color |-> "white", piece |-> "PAWN",   to |-> "e4", push |-> FALSE,
              san |-> "dxe4",  ends |-> "none",         check |-> FALSE,
              is_mate |-> FALSE, mate |-> 0, cp |-> -40, found |-> 1],
    f2e4 |-> [color |-> "white", piece |-> "KNIGHT", to |-> "e4", push |-> FALSE,
              san |-> "Nxe4",  ends |-> "insufficient", check |-> FALSE,
              is_mate |-> FALSE, mate |-> 0, cp |-> 0, found |-> 0],
    h5f7 |-> [color |-> "white", piece |-> "QUEEN",  to |-> "f7", push |-> FALSE,
              san |-> "Qxf7#", ends |-> "checkmate",    check |-> TRUE,
              is_mate |-> TRUE,  mate |-> 0, cp |-> 0, found |-> 5],
    a6a7 |-> [color |-> "white", piece |-> "PAWN",   to |-> "a7", push |-> TRUE,
              san |-> "a7",    ends |-> "stalemate",    check |-> FALSE,
              is_mate |-> FALSE, mate |-> 0, cp |-> 0, found |-> 0],
    d6e5 |-> [color |-> "black", piece |-> "PAWN",   to |-> "e5", push |-> FALSE,
              san |-> "dxe5",  ends |-> "none",         check |-> TRUE,
              is_mate |-> TRUE,  mate |-> 3, cp |-> 0, found |-> 1],
    h4f2 |-> [color |-> "black", piece |-> "QUEEN",  to |-> "f2", push |-> FALSE,
              san |-> "Qxf2#", ends |-> "checkmate",    check |-> TRUE,
              is_mate |-> TRUE,  mate |-> 0, cp |-> 0, found |-> 5] ]

Moves == DOMAIN MoveTable
Squares == {MoveTable[m].to : m \in Moves}

\* the order in which board.legal_moves yields the moves
MoveOrder == <<"d3e4", "f2e4", "h5f7", "a6a7", "d6e5", "h4f2">>

\* chess.Board(): the position is the stack of the moves pushed so far
StartBoard == <<>>

\* board.turn: White moves first and every push passes the turn
Turn(b) == IF Len(b) % 2 = 0 THEN "white" ELSE "black"

Ends(b) == IF b = <<>> THEN "none" ELSE MoveTable[b[Len(b)]].ends

is_checkmate(b) == Ends(b) = "checkmate"
is_stalemate(b) == Ends(b) = "stalemate"
is_insufficient_material(b) == Ends(b) = "insufficient"
is_check(b) == IF b = <<>> THEN FALSE ELSE MoveTable[b[Len(b)]].check

\* board.legal_moves, in generation order: the moves of the side to move; a
\* mated or stalemated side has none
LegalMoveList(b) ==
  IF is_checkmate(b) \/ is_stalemate(b) THEN <<>>
  ELSE SelectSeq(MoveOrder, LAMBDA m : MoveTable[m].color = Turn(b))

LegalMoves(b) ==
  LET l == LegalMoveList(b) IN {l[i] : i \in 1..Len(l)}

\* board.fen(): the position in interchange notation
Fen(b) == [position |-> b, turn |-> Turn(b)]

\* board.san(move)
San(m) == MoveTable[m].san

\* ----------------------------------------------------------------- state
VARIABLES
  gm,     \* the GameManager object: its fields, self.state included
  ai,     \* bag of the live _ai_move_task threads
  hints,  \* bag of the live _hint_task threads
  out,    \* what the last step returned, sent and saved
  client, \* what a caller holds: the dict get_state returned to it, or the
          \* argument and result of its call of a helper
  loops,  \* the two loops: SerialBridge.ser as _loop leaves it, and where the
          \* _timer_loop thread is
  main    \* the module state of the synchronous variant, src/main.py

vars == <<gm, ai, hints, out, client, loops, main>>

\* ---------------------------------------------- StrategyEngine (UCI) stub
\* engine.analyse(board, ...)["score"].white()
Analyse(b) ==
  IF b = <<>> THEN [is_mate |-> FALSE, mate |-> 0, cp |-> 20]
  ELSE [is_mate |-> MoveTable[b[Len(b)]].is_mate,
        mate    |-> MoveTable[b[Len(b)]].mate,
        cp      |-> MoveTable[b[Len(b)]].cp]

\* the moves engine.play(board, Limit(depth=depth)) may answer with: a legal
\* move the search finds at that depth, or no move at all when the side to
\* move has none
PlayResults(b, depth) ==
  IF LegalMoves(b) = {} THEN {None}
  ELSE {m \in LegalMoves(b) : MoveTable[m].found > 0 /\ MoveTable[m].found <= depth}

\* ------------------------------------------------------ GameManager helpers
\* A helper takes and returns a context c: the GameManager fields (c.gm), the
\* lines handed to SerialBridge.send so far in this step (c.tx) and the rows
\* handed to DatabaseManager.save_game in this step (c.saved).

Ctx(g) == [gm |-> g, tx |-> <<>>, saved |-> <<>>]

\* self.serial.send(msg)
Send(c, msg) == [c EXCEPT !.tx = Append(@, msg)]

RECURSIVE SpacesOf(_)
SpacesOf(n) == IF n <= 0 THEN "" ELSE " " \o SpacesOf(n - 1)

\* (row + 16 spaces)[:16]; no row the source passes is longer than 16
Pad16(row) == row \o SpacesOf(16 - Len(row))

\* f"{n:02}"
Fmt02(n) == IF n >= 0 /\ n < 10 THEN "0" \o ToString(n) ELSE ToString(n)

_update_lcd(c, row0, row1) ==
  LET l0 == IF row0 # None /\ row0 # "" THEN Pad16(row0) ELSE c.gm.state.lcd[1]
      l1 == IF row1 # None /\ row1 # "" THEN Pad16(row1) ELSE c.gm.state.lcd[2]
  IN  [c EXCEPT !.gm.state.lcd = <<l0, l1>>]

emotes ==
  [ BRILLIANT |-> <<"(*^O^*) Super!! ", "\\(^o^)/ Wow!!   ">>,
    GOOD      |-> <<"(^_^) Good!     ", "(o_o) Nice move ">>,
    INAC      |-> <<"(O_O ) (_ _ )   ", "(-_-) Hmmm..... ">>,
    MISTAKE   |-> <<"(T_T) Mistake.. ", "(;_;) Oh no.... ">>,
    BLUNDER   |-> <<"(X_X) Blunder!! ", "(>_<) Disaster! ">> ]

\* random.choice picks entry e of the label's list
_update_lcd_emoticon(c, label, e) == _update_lcd(c, emotes[label][e], None)

_sync_time(c) ==
  Send(c, "TIME:" \o ToString(c.gm.timer_white) \o "," \o ToString(c.gm.timer_black))

\* _get_eval without `if not self.engine: return 0`
_get_eval_NoEngineTest(g, b) ==
  LET score == Analyse(b)
  IN  IF score.is_mate THEN (IF score.mate > 0 THEN 10000 ELSE -10000)
      ELSE score.cp

_get_eval(g, b) ==
  IF ~g.engine THEN 0
  ELSE LET score == Analyse(b)
       IN  IF score.is_mate THEN (IF score.mate > 0 THEN 10000 ELSE -10000)
           ELSE score.cp

\* _classify_move with `<` for `<=` in its second test
_classify_move_Strict(delta) ==
  IF delta < 0 THEN "BRILLIANT"
  ELSE IF delta < 30 THEN "GOOD"
  ELSE IF delta <= 90 THEN "INAC"
  ELSE IF delta <= 200 THEN "MISTAKE"
  ELSE "BLUNDER"

_classify_move(delta) ==
  IF delta < 0 THEN "BRILLIANT"
  ELSE IF delta <= 30 THEN "GOOD"
  ELSE IF delta <= 90 THEN "INAC"
  ELSE IF delta <= 200 THEN "MISTAKE"
  ELSE "BLUNDER"

\* the delta of _make_move without the inversion after a move of Black
Delta_NoInvert(cp_before, cp_after, turn) == cp_before - cp_after

\* delta = cp_before - cp_after, inverted when it is White's turn after the
\* push, that is when Black has moved
Delta(cp_before, cp_after, turn) ==
  LET delta == cp_before - cp_after
  IN  IF turn = "white" THEN -delta ELSE delta

_save_to_db(c, result) ==
  LET hist  == c.gm.state.history
      pgn   == [i \in 1..Len(hist) |-> hist[i].san]
      white == IF c.gm.player_color = "white" THEN "Player" ELSE "Stockfish"
      black == IF c.gm.player_color = "white" THEN "Stockfish" ELSE "Player"
  IN  [c EXCEPT !.saved = Append(@, [white |-> white, black |-> black,
                                     result |-> result, pgn |-> pgn])]

\* _make_move recording only the moves it gives feedback for
_make_move_FeedbackOnly(c, move, send_feedback, e) ==
  LET g         == c.gm
      cp_before == _get_eval(g, g.board)
      san       == San(move)
      b2        == Append(g.board, move)
      cp_after  == _get_eval(g, b2)
      delta     == Delta(cp_before, cp_after, Turn(b2))
      quality   == _classify_move(delta)
      c1 == [c EXCEPT !.gm.board = b2,
                      !.gm.state.fen = Fen(b2),
                      !.gm.state.last_move = move,
                      !.gm.state.turn = Turn(b2),
                      !.gm.state.check = is_check(b2),
                      !.gm.state.eval = [val |-> cp_after, label |-> quality],
                      !.gm.state.history =
                          IF send_feedback
                          THEN Append(@, [move |-> move, san |-> san,
                                          quality |-> quality, eval |-> cp_after])
                          ELSE @]
      c2 == IF send_feedback
            THEN _update_lcd_emoticon(
                   Send(Send(c1, "LAST:" \o san), "EVAL:" \o quality), quality, e)
            ELSE c1
      c3 == IF g.increment > 0
            THEN IF Turn(b2) = "white"
                 THEN [c2 EXCEPT !.gm.timer_black = @ + g.increment]
                 ELSE [c2 EXCEPT !.gm.timer_white = @ + g.increment]
            ELSE c2
  IN  _sync_time(c3)

\* _make_move crediting the increment to the side that is to move next
_make_move_CreditOther(c, move, send_feedback, e) ==
  LET g         == c.gm
      cp_before == _get_eval(g, g.board)
      san       == San(move)
      b2        == Append(g.board, move)
      cp_after  == _get_eval(g, b2)
      delta     == Delta(cp_before, cp_after, Turn(b2))
      quality   == _classify_move(delta)
      c1 == [c EXCEPT !.gm.board = b2,
                      !.gm.state.fen = Fen(b2),
                      !.gm.state.last_move = move,
                      !.gm.state.turn = Turn(b2),
                      !.gm.state.check = is_check(b2),
                      !.gm.state.eval = [val |-> cp_after, label |-> quality],
                      !.gm.state.history =
                          Append(@, [move |-> move, san |-> san,
                                     quality |-> quality, eval |-> cp_after])]
      c2 == IF send_feedback
            THEN _update_lcd_emoticon(
                   Send(Send(c1, "LAST:" \o san), "EVAL:" \o quality), quality, e)
            ELSE c1
      c3 == IF g.increment > 0
            THEN IF Turn(b2) = "white"
                 THEN [c2 EXCEPT !.gm.timer_white = @ + g.increment]
                 ELSE [c2 EXCEPT !.gm.timer_black = @ + g.increment]
            ELSE c2
  IN  _sync_time(c3)

_make_move(c, move, send_feedback, e) ==
  LET g         == c.gm
      cp_before == _get_eval(g, g.board)
      san       == San(move)
      b2        == Append(g.board, move)
      cp_after  == _get_eval(g, b2)
      delta     == Delta(cp_before, cp_after, Turn(b2))
      quality   == _classify_move(delta)
      c1 == [c EXCEPT !.gm.board = b2,
                      !.gm.state.fen = Fen(b2),
                      !.gm.state.last_move = move,
                      !.gm.state.turn = Turn(b2),
                      !.gm.state.check = is_check(b2),
                      !.gm.state.eval = [val |-> cp_after, label |-> quality],
                      !.gm.state.history =
                          Append(@, [move |-> move, san |-> san,
                                     quality |-> quality, eval |-> cp_after])]
      c2 == IF send_feedback
            THEN _update_lcd_emoticon(
                   Send(Send(c1, "LAST:" \o san), "EVAL:" \o quality), quality, e)
            ELSE c1
      c3 == IF g.increment > 0
            THEN IF Turn(b2) = "white"
                 THEN [c2 EXCEPT !.gm.timer_black = @ + g.increment]
                 ELSE [c2 EXCEPT !.gm.timer_white = @ + g.increment]
            ELSE c2
  IN  _sync_time(c3)

Upper(winner) == IF winner = "Black" THEN "BLACK" ELSE "WHITE"

\* _check_game_over naming the mated side as the winner
_check_game_over_MatedWins(c) ==
  LET b == c.gm.board
      winner == IF Turn(b) = "white" THEN "White" ELSE "Black"
      result == IF is_checkmate(b) THEN winner \o " Wins"
                ELSE IF is_stalemate(b) THEN "Draw"
                ELSE IF is_insufficient_material(b) THEN "Draw"
                ELSE None
      reason == IF is_checkmate(b) THEN "Checkmate"
                ELSE IF is_stalemate(b) THEN "Stalemate"
                ELSE IF is_insufficient_material(b) THEN "Insufficient Mat"
                ELSE ""
      c1 == IF is_checkmate(b) THEN Send(c, "CHECKMATE:" \o Upper(winner))
            ELSE IF is_stalemate(b) THEN Send(c, "STALEMATE")
            ELSE IF is_insufficient_material(b) THEN Send(c, "STALEMATE")
            ELSE c
  IN  IF result # None
      THEN [c |-> _save_to_db(
                    _update_lcd([c1 EXCEPT !.gm.state.status = "game_over"],
                                result \o "!", reason),
                    result),
            over |-> TRUE]
      ELSE [c |-> c1, over |-> FALSE]

\* returns the context and the boolean the source returns
_check_game_over(c) ==
  LET b == c.gm.board
      winner == IF Turn(b) = "white" THEN "Black" ELSE "White"
      result == IF is_checkmate(b) THEN winner \o " Wins"
                ELSE IF is_stalemate(b) THEN "Draw"
                ELSE IF is_insufficient_material(b) THEN "Draw"
                ELSE None
      reason == IF is_checkmate(b) THEN "Checkmate"
                ELSE IF is_stalemate(b) THEN "Stalemate"
                ELSE IF is_insufficient_material(b) THEN "Insufficient Mat"
                ELSE ""
      c1 == IF is_checkmate(b) THEN Send(c, "CHECKMATE:" \o Upper(winner))
            ELSE IF is_stalemate(b) THEN Send(c, "STALEMATE")
            ELSE IF is_insufficient_material(b) THEN Send(c, "STALEMATE")
            ELSE c
  IN  IF result # None
      THEN [c |-> _save_to_db(
                    _update_lcd([c1 EXCEPT !.gm.state.status = "game_over"],
                                result \o "!", reason),
                    result),
            over |-> TRUE]
      ELSE [c |-> c1, over |-> FALSE]

\* _timeout without the call of _save_to_db
_timeout_NoSave(c, winner) ==
  _update_lcd(
    Send([c EXCEPT !.gm.state.status = "game_over"],
         "CHECKMATE:" \o Upper(winner)),
    winner \o " Wins!", "Time Expired")

_timeout(c, winner) ==
  _save_to_db(
    _update_lcd(
      Send([c EXCEPT !.gm.state.status = "game_over"],
           "CHECKMATE:" \o Upper(winner)),
      winner \o " Wins!", "Time Expired"),
    winner \o " Wins (Time)")

\* ------------------------------------------------------------- move texts
\* The text of a MOVE: command.  kind "uci": the UCI text of move arg;
\* kind "san": the SAN text of move arg (a piece move or a capture);
\* kind "square": the two characters of square arg (also the SAN of a pawn
\* push to it); kind "junk": two characters that name nothing ("xx").
MoveTexts ==
  {[kind |-> "uci", arg |-> m] : m \in Moves} \cup
  {[kind |-> "san", arg |-> m] : m \in {x \in Moves : ~MoveTable[x].push}} \cup
  {[kind |-> "square", arg |-> sq] : sq \in Squares} \cup
  {[kind |-> "junk", arg |-> "xx"]}

\* chess.Move.from_uci: None stands for the ValueError it raises
from_uci(text) == IF text.kind = "uci" THEN text.arg ELSE None

\* board.parse_san: None stands for the ValueError it raises
parse_san(b, text) ==
  IF text.kind = "san"
  THEN IF text.arg \in LegalMoves(b) THEN text.arg ELSE None
  ELSE IF text.kind = "square"
       THEN LET pushes == {m \in LegalMoves(b) :
                             MoveTable[m].push /\ MoveTable[m].to = text.arg}
            IN  IF pushes # {} THEN CHOOSE m \in pushes : TRUE ELSE None
       ELSE None

\* len(move_str)
TextLen(text) == IF text.kind \in {"square", "junk"} THEN 2 ELSE 4

\* chess.parse_square: None stands for the ValueError it raises
parse_square(text) == IF text.kind = "square" THEN text.arg ELSE None

mapping == [KING |-> 6, QUEEN |-> 5, ROOK |-> 4, KNIGHT |-> 3, BISHOP |-> 2, PAWN |-> 1]

\* get_priority(m): the from-square of a legal move always holds a piece
get_priority(m) == mapping[MoveTable[m].piece]

\* list.sort(key=get_priority, reverse=False): stable, ascending
RECURSIVE InsertByKey(_, _)
InsertByKey(sorted, m) ==
  IF sorted = <<>> THEN <<m>>
  ELSE IF get_priority(sorted[Len(sorted)]) <= get_priority(m)
       THEN Append(sorted, m)
       ELSE Append(InsertByKey(SubSeq(sorted, 1, Len(sorted) - 1), m),
                   sorted[Len(sorted)])

RECURSIVE SortByPriority(_)
SortByPriority(seq) ==
  IF seq = <<>> THEN <<>>
  ELSE InsertByKey(SortByPriority(SubSeq(seq, 1, Len(seq) - 1)), seq[Len(seq)])

\* step 3 of process_move: the destination square
ResolveSquare(b, text) ==
  IF TextLen(text) = 2 /\ parse_square(text) # None
  THEN LET candidates == SelectSeq(LegalMoveList(b),
                                   LAMBDA m : MoveTable[m].to = parse_square(text))
       IN  IF candidates # <<>> THEN SortByPriority(candidates)[1] ELSE None
  ELSE None

\* the parse chain of process_move
ResolveMove(b, text) ==
  IF from_uci(text) # None THEN from_uci(text)
  ELSE LET san == parse_san(b, text)
       IN  IF san # None THEN san ELSE ResolveSquare(b, text)

\* ------------------------------------------------------------------ threads
\* threading.Thread(target=self._ai_move_task, args=(game_id,)).start()
AiTask(game_id) == [pc |-> "sleep", game_id |-> game_id, move |-> None]
\* threading.Thread(target=self._hint_task).start(); requested_in is the
\* generation of the request, which the thread itself does not keep
HintTask(board_copy, game_id) ==
  [board_copy |-> board_copy, requested_in |-> game_id]

Spawn(bag, t) == bag (+) SetToBag({t})
Finish(bag, t) == bag (-) SetToBag({t})
Replace(bag, t, u) == (bag (-) SetToBag({t})) (+) SetToBag({u})

\* The dict get_state returns is state.copy(), a shallow copy: its "history"
\* and "lcd" are the very list objects of self.state, which history.append
\* and lcd[i] = ... change in place, until reset_game puts new lists into
\* self.state.  lists is the generation whose lists the dict holds; now is the
\* dict as its holder reads it after the session has become g2.
Shared(cl, g2) ==
  IF cl.kind = "snapshot" /\ cl.lists = g2.game_id
  THEN [cl EXCEPT !.now.history = g2.state.history, !.now.lcd = g2.state.lcd]
  ELSE cl

\* what a step leaves in gm and out; ret is the value process_move returns,
\* "stale" when a reply thread returns at one of its two checks, and None for
\* every other step
Outcome(c, ret) ==
  /\ gm' = c.gm
  /\ out' = [ret |-> ret, tx |-> c.tx, saved |-> c.saved]
  /\ client' = Shared(client, c.gm)

\* the outcome of a step that runs to its end with the port as it is
Effect(c, ret) ==
  /\ Outcome(c, ret)
  /\ loops' = loops
  /\ main' = main

\* ------------------------------------------------------------------- Init
\* GameManager.__init__; _init_engine leaves self.engine None when Stockfish
\* cannot be started
GameManager(e) ==
  [ board |-> StartBoard, engine |-> e, depth |-> 5,
    timer_white |-> 600, timer_black |-> 600, increment |-> 0,
    player_color |-> "white", game_id |-> 0,
    state |-> [ status |-> "waiting", turn |-> "white",
                fen |-> Fen(StartBoard), last_move |-> None,
                check |-> FALSE, eval |-> [val |-> 0, label |-> None],
                history |-> <<>>,
                lcd |-> <<"ChessBot Arena", "Ready...">>,
                hint_move |-> Absent, winner |-> Absent ] ]

\* no caller holds anything
NoClient == [kind |-> "none"]

\* src/main.py at start-up: the module-level state, board, DEPTH and
\* game_counter; init_engine leaves engine None when no Stockfish starts.
\* ret and tx: what the last call returned and the lines it sent.
MainModule(e) ==
  [ board |-> StartBoard, DEPTH |-> 5, engine |-> e, game_counter |-> 0,
    ret |-> None, tx |-> <<>>,
    state |-> [ board_fen |-> Fen(StartBoard), turn |-> "white",
                eval_label |-> None, eval_cp |-> 0, best_move |-> None,
                last_move |-> None, hint_move |-> None, status |-> "waiting",
                winner |-> None, move_history |-> <<>>,
                timer_white |-> 600, timer_black |-> 600, increment |-> 0,
                difficulty |-> 5, player_color |-> "white", game_id |-> 0,
                lcd_row0 |-> "ChessBot Arena  ", lcd_row1 |-> "  Ready...      ",
                thinking |-> FALSE ] ]

\* SerialBridge.__init__ and GameManager.__init__: no port is open yet
\* (self.ser = None) and the clock thread is in its sleep; failed: a command
\* handler has raised into _loop
Loops == [ser |-> "none", timer |-> "idle", failed |-> FALSE]

Init ==
  /\ \E e \in BOOLEAN : gm = GameManager(e)
  /\ ai = EmptyBag
  /\ hints = EmptyBag
  /\ out = [ret |-> None, tx |-> <<>>, saved |-> <<>>]
  /\ client = NoClient
  /\ loops = Loops
  /\ main = MainModule(TRUE)

\* ---------------------------------------------------------------- actions
\* reset_game without `self.game_id += 1`
reset_game_SameId(difficulty, timer_mins, increment_secs, player_color) ==
  /\ player_color = "black" => BagCardinality(ai) < MaxTasks
  /\ LET g1 == [gm EXCEPT !.board = StartBoard,
                          !.depth = difficulty,
                          !.timer_white = timer_mins * 60,
                          !.timer_black = timer_mins * 60,
                          !.increment = increment_secs,
                          !.player_color = player_color,
                          !.state.status = "playing",
                          !.state.turn = "white",
                          !.state.fen = Fen(StartBoard),
                          !.state.last_move = None,
                          !.state.check = FALSE,
                          !.state.eval = [val |-> 0, label |-> None],
                          !.state.history = <<>>,
                          !.state.lcd = <<"Last: None",
                                          "W" \o Fmt02(timer_mins) \o ":00 B"
                                              \o Fmt02(timer_mins) \o ":00">>]
     IN  /\ Effect(Ctx(g1), None)
         /\ ai' = IF player_color = "black" THEN Spawn(ai, AiTask(g1.game_id)) ELSE ai
  /\ UNCHANGED hints

\* reset_game tagging the reply thread with the generation it replaces
reset_game_OldTag(difficulty, timer_mins, increment_secs, player_color) ==
  /\ gm.game_id < MaxGen
  /\ player_color = "black" => BagCardinality(ai) < MaxTasks
  /\ LET g1 == [gm EXCEPT !.board = StartBoard,
                          !.depth = difficulty,
                          !.timer_white = timer_mins * 60,
                          !.timer_black = timer_mins * 60,
                          !.increment = increment_secs,
                          !.player_color = player_color,
                          !.game_id = @ + 1,
                          !.state.status = "playing",
                          !.state.turn = "white",
                          !.state.fen = Fen(StartBoard),
                          !.state.last_move = None,
                          !.state.check = FALSE,
                          !.state.eval = [val |-> 0, label |-> None],
                          !.state.history = <<>>,
                          !.state.lcd = <<"Last: None",
                                          "W" \o Fmt02(timer_mins) \o ":00 B"
                                              \o Fmt02(timer_mins) \o ":00">>]
     IN  /\ Effect(Ctx(g1), None)
         /\ ai' = IF player_color = "black" THEN Spawn(ai, AiTask(gm.game_id)) ELSE ai
  /\ UNCHANGED hints

reset_game(difficulty, timer_mins, increment_secs, player_color) ==
  /\ gm.game_id < MaxGen
  /\ player_color = "black" => BagCardinality(ai) < MaxTasks
  /\ LET g1 == [gm EXCEPT !.board = StartBoard,
                          !.depth = difficulty,
                          !.timer_white = timer_mins * 60,
                          !.timer_black = timer_mins * 60,
                          !.increment = increment_secs,
                          !.player_color = player_color,
                          !.game_id = @ + 1,
                          !.state.status = "playing",
                          !.state.turn = "white",
                          !.state.fen = Fen(StartBoard),
                          !.state.last_move = None,
                          !.state.check = FALSE,
                          !.state.eval = [val |-> 0, label |-> None],
                          !.state.history = <<>>,
                          !.state.lcd = <<"Last: None",
                                          "W" \o Fmt02(timer_mins) \o ":00 B"
                                              \o Fmt02(timer_mins) \o ":00">>]
     IN  /\ Effect(Ctx(g1), None)
         /\ ai' = IF player_color = "black" THEN Spawn(ai, AiTask(g1.game_id)) ELSE ai
  /\ UNCHANGED hints

\* process_move without the test `move not in self.board.legal_moves`
process_move_NoLegalTest(text) ==
  IF gm.state.status # "playing"
  THEN /\ Effect(Ctx(gm), "not_playing")
       /\ UNCHANGED <<ai, hints>>
  ELSE LET move == ResolveMove(gm.board, text)
       IN  IF move = None
           THEN /\ Effect(_update_lcd(Send(Ctx(gm), "ILLEGAL"), "Illegal Move!", None),
                          "illegal")
                /\ UNCHANGED <<ai, hints>>
           ELSE /\ Len(gm.board) < MaxPly
                /\ \E e \in 1..2 :
                     LET r == _check_game_over(_make_move(Ctx(gm), move, TRUE, e))
                     IN  IF r.over
                         THEN /\ Effect(r.c, "game_over")
                              /\ ai' = ai
                         ELSE /\ BagCardinality(ai) < MaxTasks
                              /\ Effect(r.c, "ok")
                              /\ ai' = Spawn(ai, AiTask(gm.game_id))
                /\ UNCHANGED hints

process_move(text) ==
  IF gm.state.status # "playing"
  THEN /\ Effect(Ctx(gm), "not_playing")
       /\ UNCHANGED <<ai, hints>>
  ELSE LET move == ResolveMove(gm.board, text)
       IN  IF move = None \/ move \notin LegalMoves(gm.board)
           THEN /\ Effect(_update_lcd(Send(Ctx(gm), "ILLEGAL"), "Illegal Move!", None), "illegal")
                /\ UNCHANGED <<ai, hints>>
           ELSE /\ Len(gm.board) < MaxPly
                /\ \E e \in 1..2 :
                     LET r == _check_game_over(_make_move(Ctx(gm), move, TRUE, e))
                     IN  IF r.over
                         THEN /\ Effect(r.c, "game_over")
                              /\ ai' = ai
                         ELSE /\ BagCardinality(ai) < MaxTasks
                              /\ Effect(r.c, "ok")
                              /\ ai' = Spawn(ai, AiTask(gm.game_id))
                /\ UNCHANGED hints

\* first locked block of _ai_move_task, after the sleep
AiWake(t) ==
  /\ t.pc = "sleep"
  /\ IF gm.game_id # t.game_id \/ gm.state.status # "playing"
     THEN /\ Effect(Ctx(gm), "stale")
          /\ ai' = Finish(ai, t)
     ELSE /\ Effect(_update_lcd(Ctx(gm), "Thinking...", None), None)
          /\ ai' = Replace(ai, t, [t EXCEPT !.pc = "calc"])
  /\ UNCHANGED hints

\* self.engine.play(self.board, ...) outside the lock; without an engine the
\* call raises and ends the thread
AiCalc(t) ==
  /\ t.pc = "calc"
  /\ IF ~gm.engine
     THEN /\ Effect(Ctx(gm), None)
          /\ ai' = Finish(ai, t)
     ELSE \E m \in PlayResults(gm.board, gm.depth) :
            /\ Effect(Ctx(gm), None)
            /\ ai' = Replace(ai, t, [t EXCEPT !.pc = "commit", !.move = m])
  /\ UNCHANGED hints

\* the committing part announcing the move without making it
AiPush_AnnounceOnly(t) ==
  LET san == San(t.move)
      c1  == _update_lcd(Send(Ctx(gm), "BEST:" \o san), "Last: " \o san, None)
  IN  /\ Len(gm.board) < MaxPly
      /\ Effect(c1, None)
      /\ ai' = Finish(ai, t)

\* the committing part of the second locked block
AiPush(t) ==
  LET san == San(t.move)
      c1  == _update_lcd(Send(Ctx(gm), "BEST:" \o san), "Last: " \o san, None)
      r   == _check_game_over(_make_move(c1, t.move, FALSE, 1))
  IN  /\ Len(gm.board) < MaxPly
      /\ Effect(r.c, None)
      /\ ai' = Finish(ai, t)

\* second locked block testing the status only, not the generation
AiCommit_NoGenTest(t) ==
  /\ t.pc = "commit"
  /\ IF gm.state.status # "playing"
     THEN /\ Effect(Ctx(gm), "stale")
          /\ ai' = Finish(ai, t)
     ELSE IF t.move = None
     THEN /\ Effect(Ctx(gm), None)
          /\ ai' = Finish(ai, t)
     ELSE IF t.move \in LegalMoves(gm.board)
     THEN AiPush(t)
     ELSE \/ /\ Effect(Ctx(gm), None)
             /\ ai' = Finish(ai, t)
          \/ AiPush(t)
  /\ UNCHANGED hints

\* second locked block testing the generation only, not the status
AiCommit_NoStatusTest(t) ==
  /\ t.pc = "commit"
  /\ IF gm.game_id # t.game_id
     THEN /\ Effect(Ctx(gm), "stale")
          /\ ai' = Finish(ai, t)
     ELSE IF t.move = None
     THEN /\ Effect(Ctx(gm), None)
          /\ ai' = Finish(ai, t)
     ELSE IF t.move \in LegalMoves(gm.board)
     THEN AiPush(t)
     ELSE \/ /\ Effect(Ctx(gm), None)
             /\ ai' = Finish(ai, t)
          \/ AiPush(t)
  /\ UNCHANGED hints

\* second locked block of _ai_move_task.  A move that is not legal in the
\* position it is applied to is outside the contract of board.san and
\* board.push: the library either raises or applies it.
AiCommit(t) ==
  /\ t.pc = "commit"
  /\ IF gm.game_id # t.game_id \/ gm.state.status # "playing"
     THEN /\ Effect(Ctx(gm), "stale")
          /\ ai' = Finish(ai, t)
     ELSE IF t.move = None
     THEN /\ Effect(Ctx(gm), None)
          /\ ai' = Finish(ai, t)
     ELSE IF t.move \in LegalMoves(gm.board)
     THEN AiPush(t)
     ELSE \/ /\ Effect(Ctx(gm), None)
             /\ ai' = Finish(ai, t)
          \/ AiPush(t)
  /\ UNCHANGED hints

\* _timer_loop without the test of the status
Tick_NoStatusTest ==
  /\ LET c0 == Ctx(gm)
         c1 == IF gm.state.turn = "white" /\ gm.timer_white > 0
               THEN LET d == [c0 EXCEPT !.gm.timer_white = @ - 1]
                    IN  IF d.gm.timer_white = 0 THEN _timeout(d, "Black") ELSE d
               ELSE IF gm.state.turn = "black" /\ gm.timer_black > 0
               THEN LET d == [c0 EXCEPT !.gm.timer_black = @ - 1]
                    IN  IF d.gm.timer_black = 0 THEN _timeout(d, "White") ELSE d
               ELSE c0
         w  == c1.gm.timer_white
         b  == c1.gm.timer_black
         c2 == [c1 EXCEPT !.gm.state.lcd[2] =
                   "W" \o Fmt02(w \div 60) \o ":" \o Fmt02(w % 60) \o
                   " B" \o Fmt02(b \div 60) \o ":" \o Fmt02(b % 60)]
     IN  Effect(_sync_time(c2), None)
  /\ UNCHANGED <<ai, hints>>

\* the locked block of _timer_loop without the tests `> 0` of the clocks
_timer_loop_NoFloor(c0) ==
  IF c0.gm.state.status # "playing"
  THEN c0
  ELSE LET g  == c0.gm
           c1 == IF g.state.turn = "white"
                 THEN LET d == [c0 EXCEPT !.gm.timer_white = @ - 1]
                      IN  IF d.gm.timer_white = 0 THEN _timeout(d, "Black") ELSE d
                 ELSE IF g.state.turn = "black"
                 THEN LET d == [c0 EXCEPT !.gm.timer_black = @ - 1]
                      IN  IF d.gm.timer_black = 0 THEN _timeout(d, "White") ELSE d
                 ELSE c0
           w  == c1.gm.timer_white
           b  == c1.gm.timer_black
           c2 == [c1 EXCEPT !.gm.state.lcd[2] =
                     "W" \o Fmt02(w \div 60) \o ":" \o Fmt02(w % 60) \o
                     " B" \o Fmt02(b \div 60) \o ":" \o Fmt02(b % 60)]
       IN  _sync_time(c2)

\* the locked block of _timer_loop without the calls of _timeout
_timer_loop_NoTimeout(c0) ==
  IF c0.gm.state.status # "playing"
  THEN c0
  ELSE LET g  == c0.gm
           c1 == IF g.state.turn = "white" /\ g.timer_white > 0
                 THEN LET d == [c0 EXCEPT !.gm.timer_white = @ - 1]
                      IN  d
                 ELSE IF g.state.turn = "black" /\ g.timer_black > 0
                 THEN LET d == [c0 EXCEPT !.gm.timer_black = @ - 1]
                      IN  d
                 ELSE c0
           w  == c1.gm.timer_white
           b  == c1.gm.timer_black
           c2 == [c1 EXCEPT !.gm.state.lcd[2] =
                     "W" \o Fmt02(w \div 60) \o ":" \o Fmt02(w % 60) \o
                     " B" \o Fmt02(b \div 60) \o ":" \o Fmt02(b % 60)]
       IN  _sync_time(c2)

\* the locked block of one iteration of _timer_loop
_timer_loop(c0) ==
  IF c0.gm.state.status # "playing"
  THEN c0
  ELSE LET g  == c0.gm
           c1 == IF g.state.turn = "white" /\ g.timer_white > 0
                 THEN LET d == [c0 EXCEPT !.gm.timer_white = @ - 1]
                      IN  IF d.gm.timer_white = 0 THEN _timeout(d, "Black") ELSE d
                 ELSE IF g.state.turn = "black" /\ g.timer_black > 0
                 THEN LET d == [c0 EXCEPT !.gm.timer_black = @ - 1]
                      IN  IF d.gm.timer_black = 0 THEN _timeout(d, "White") ELSE d
                 ELSE c0
           w  == c1.gm.timer_white
           b  == c1.gm.timer_black
           c2 == [c1 EXCEPT !.gm.state.lcd[2] =
                     "W" \o Fmt02(w \div 60) \o ":" \o Fmt02(w % 60) \o
                     " B" \o Fmt02(b \div 60) \o ":" \o Fmt02(b % 60)]
       IN  _sync_time(c2)

\* one iteration of _timer_loop
Tick ==
  /\ Effect(_timer_loop(Ctx(gm)), None)
  /\ UNCHANGED <<ai, hints>>

\* request_hint and _hint_task up to the end of its locked block: the thread
\* does nothing before it, so its start is taken at once
request_hint ==
  /\ IF ~gm.engine \/ gm.state.status # "playing"
     THEN hints' = hints
     ELSE /\ BagCardinality(hints) < MaxHints
          /\ hints' = Spawn(hints, HintTask(gm.board, gm.game_id))
  /\ Effect(Ctx(gm), None)
  /\ UNCHANGED ai

\* engine.play on the private copy, then the locked store and the HINT line
HintStore(h) ==
  /\ \E m \in PlayResults(h.board_copy, gm.depth) :
       IF m = None
       THEN Effect(Ctx(gm), None)
       ELSE LET hint_san == San(m)
                c1 == _update_lcd([Ctx(gm) EXCEPT !.gm.state.hint_move = hint_san],
                                  "Hint: " \o hint_san, None)
            IN  Effect(Send(c1, "HINT:" \o hint_san), None)
  /\ hints' = Finish(hints, h)
  /\ UNCHANGED ai

\* resign without the test of the status
resign_NoStatusTest ==
  /\ LET winner == IF gm.player_color = "white" THEN "Black" ELSE "White"
         lower  == IF winner = "Black" THEN "black" ELSE "white"
         c1 == [Ctx(gm) EXCEPT !.gm.state.status = "resigned",
                               !.gm.state.winner = lower]
         c2 == Send(_update_lcd(c1, winner \o " Wins!", "Resignation"), "RESIGN")
     IN  Effect(_save_to_db(c2, winner \o " Wins (Resign)"), None)
  /\ UNCHANGED <<ai, hints>>

resign ==
  /\ IF gm.state.status # "playing"
     THEN Effect(Ctx(gm), None)
     ELSE LET winner == IF gm.player_color = "white" THEN "Black" ELSE "White"
              lower  == IF winner = "Black" THEN "black" ELSE "white"
              c1 == [Ctx(gm) EXCEPT !.gm.state.status = "resigned",
                                    !.gm.state.winner = lower]
              c2 == Send(_update_lcd(c1, winner \o " Wins!", "Resignation"), "RESIGN")
          IN  Effect(_save_to_db(c2, winner \o " Wins (Resign)"), None)
  /\ UNCHANGED <<ai, hints>>

\* draw without the test of the status
draw_NoStatusTest ==
  /\ LET c1 == [Ctx(gm) EXCEPT !.gm.state.status = "draw"]
         c2 == Send(_update_lcd(c1, "Draw Agreed", "Game Over"), "DRAW")
     IN  Effect(_save_to_db(c2, "Draw (Agreed)"), None)
  /\ UNCHANGED <<ai, hints>>

draw ==
  /\ IF gm.state.status # "playing"
     THEN Effect(Ctx(gm), None)
     ELSE LET c1 == [Ctx(gm) EXCEPT !.gm.state.status = "draw"]
              c2 == Send(_update_lcd(c1, "Draw Agreed", "Game Over"), "DRAW")
          IN  Effect(_save_to_db(c2, "Draw (Agreed)"), None)
  /\ UNCHANGED <<ai, hints>>

set_difficulty(d) ==
  /\ Effect([Ctx(gm) EXCEPT !.gm.depth = d], None)
  /\ UNCHANGED <<ai, hints>>

\* s = self.state.copy() with the keys "timers" and "settings" added: the
\* values of the keys are the very objects self.state holds (see Shared)
get_state ==
  /\ LET s == gm.state @@
                [timers   |-> [w |-> gm.timer_white, b |-> gm.timer_black],
                 settings |-> [depth |-> gm.depth, id |-> gm.game_id]]
     IN  client' = [kind |-> "snapshot", lists |-> gm.game_id,
                    returned |-> s, now |-> s]
  /\ gm' = gm
  /\ out' = [ret |-> None, tx |-> <<>>, saved |-> <<>>]
  /\ UNCHANGED <<ai, hints, loops, main>>

Reset == \E l \in StartLines : reset_game(l[1], l[2], l[3], l[4])
ProcessMove == \E text \in MoveTexts : process_move(text)
AiWakeStep == \E t \in BagToSet(ai) : AiWake(t)
AiCalcStep == \E t \in BagToSet(ai) : AiCalc(t)
AiCommitStep == \E t \in BagToSet(ai) : AiCommit(t)
HintStoreStep == \E h \in BagToSet(hints) : HintStore(h)
SetDifficulty == \E d \in Difficulties : set_difficulty(d)

\* START, MOVE and RESIGN commands, draw(), the clock and the reply threads
Next ==
  \/ Reset
  \/ ProcessMove
  \/ AiWakeStep
  \/ AiCalcStep
  \/ AiCommitStep
  \/ Tick
  \/ resign
  \/ draw

Spec == Init /\ [][Next]_vars

\* every command and thread, under one START line
ResetFull == reset_game(3, 0, 2, "white")

NextFull ==
  \/ ResetFull
  \/ ProcessMove
  \/ AiWakeStep
  \/ AiCalcStep
  \/ AiCommitStep
  \/ Tick
  \/ request_hint
  \/ HintStoreStep
  \/ resign
  \/ draw
  \/ SetDifficulty

SpecFull == Init /\ [][NextFull]_vars

\* a caller that takes snapshots of a game in which the human moves and the
\* clock runs; the reply threads are in their sleep
NextView ==
  \/ ResetFull
  \/ ProcessMove
  \/ Tick
  \/ get_state

SpecView == Init /\ [][NextView]_vars

\* a reply thread is at its second locked block and can take it
AiCommitEnabled ==
  \E t \in BagToSet(ai) :
    /\ t.pc = "commit"
    /\ \/ gm.game_id # t.game_id
       \/ gm.state.status # "playing"
       \/ t.move = None
       \/ t.move \notin LegalMoves(gm.board)
       \/ Len(gm.board) < MaxPly

\* the reply threads run: each is a started thread whose sleep ends, whose
\* engine call returns and which gets the lock once it is free.  The third
\* conjunct is weak fairness of AiCommitStep with its enabling condition
\* written out.
FairSpec ==
  /\ Init /\ [][Next]_vars
  /\ WF_vars(AiWakeStep)
  /\ WF_vars(AiCalcStep)
  /\ ([]<>(~AiCommitEnabled) \/ []<><<AiCommitStep>>_vars)

\* ------------------------------------------------------------ properties
\* the session fields the contract speaks of
Session(g) ==
  <<g.state.history, g.board, g.state.turn, g.state.status,
    g.timer_white, g.timer_black, g.game_id>>

\* a START command with any of the arguments the model draws them from
AnyReset ==
  \E d \in {3, 5}, t \in {-1, 0}, i \in {0, 2}, pc \in {"white", "black"} :
    reset_game(d, t, i, pc)

\* number of times line msg was sent in tx
Count(msg, tx) == Cardinality({i \in 1..Len(tx) : tx[i] = msg})

Capital(side) == IF side = "white" THEN "White" ELSE "Black"

\* the values process_move returns
ProcessMoveOutcomes == {"not_playing", "illegal", "game_over", "ok"}

\* process_move finds no legal move for the text
NoLegalMove(b, text) ==
  LET move == ResolveMove(b, text)
  IN  move = None \/ move \notin LegalMoves(b)

\* C1: a reset empties the history, and no step of a reply thread that was
\* started in an earlier generation changes the history, the position, the
\* side to move, the status, a clock or the generation.
C1_StaleReplyInert ==
  [][ /\ AnyReset => gm'.state.history = <<>>
      /\ \A t \in BagToSet(ai) :
           (t.game_id < gm.game_id /\ (AiWake(t) \/ AiCalc(t) \/ AiCommit(t)))
             => Session(gm') = Session(gm) ]_vars

\* a reply thread of the first game returned at a check of the second game
C1_Witness ==
  out.ret = "stale" /\ gm.game_id = 2 /\ gm.state.status = "playing"

\* C2: a reply thread that takes the lock while the status is not "playing"
\* returns without changing any field of the session, sending a line or
\* saving a row.
C2_ReplyAbortsWhenNotPlaying ==
  [][ \A t \in BagToSet(ai) :
        (gm.state.status # "playing" /\ (AiWake(t) \/ AiCommit(t)))
          => gm' = gm /\ out'.tx = <<>> /\ out'.saved = <<>> ]_vars

\* a reply thread of the only game so far returned after that game had ended
C2_Witness ==
  out.ret = "stale" /\ gm.game_id = 1 /\ gm.state.status # "playing"

\* C3: a reset raises game_id by exactly one and every other step leaves it
\* as it is.
C3_GenerationStep ==
  [][ IF AnyReset \/ ResetFull
      THEN gm'.game_id = gm.game_id + 1
      ELSE gm'.game_id = gm.game_id ]_vars

\* the second game, with a move made and a hint stored
C3_Witness ==
  gm.game_id = 2 /\ gm.state.history # <<>> /\ gm.state.hint_move # Absent

\* C4: while the status is not "playing", process_move returns
\* "not_playing", and it and a clock tick change no field of the session and
\* start no reply thread.
C4_NotPlayingIsNoOp ==
  [][ (gm.state.status # "playing" /\ (ProcessMove \/ Tick))
        => /\ gm' = gm
           /\ ai' = ai
           /\ ProcessMove => out'.ret = "not_playing" ]_vars

\* process_move was called on a session that is not playing
C4_Witness ==
  out.ret = "not_playing" /\ gm.state.status # "playing"

\* C5: process_move of a text that resolves to no legal move returns
\* "illegal", leaves history, position, side to move, status, clocks and
\* generation as they are, sends ILLEGAL exactly once and starts no thread.
C5_IllegalLeavesSession ==
  [][ \A text \in MoveTexts :
        (gm.state.status = "playing" /\ out'.ret \in ProcessMoveOutcomes
           /\ NoLegalMove(gm.board, text) /\ process_move(text))
          => /\ out'.ret = "illegal"
             /\ Session(gm') = Session(gm)
             /\ Count("ILLEGAL", out'.tx) = 1
             /\ ai' = ai ]_vars

\* an illegal text was rejected in a game with a move on the board
C5_Witness ==
  out.ret = "illegal" /\ gm.state.status = "playing" /\ gm.board # <<>>

C7_ClocksNonNegative ==
  gm.timer_white >= 0 /\ gm.timer_black >= 0

C9_TerminalMoveEndsGame ==
  [][ (gm.state.status = "playing" /\ gm'.board # gm.board
         /\ Ends(gm'.board) # "none" /\ ProcessMove)
        => /\ gm'.state.status = "game_over"
           /\ Len(out'.saved) = 1
           /\ out'.ret = "game_over"
           /\ ai' = ai
           /\ is_checkmate(gm'.board)
                => /\ out'.saved[1].result = Capital(Turn(gm.board)) \o " Wins"
                   /\ Count("CHECKMATE:" \o Upper(Capital(Turn(gm.board))), out'.tx) = 1
    ]_vars

\* process_move has given mate
C9_Witness ==
  out.ret = "game_over" /\ is_checkmate(gm.board) /\ gm.state.status = "game_over"

\* the first move of game g, in which the human plays White, was accepted
\* just now and the engine is there to answer it
C10_Scenario(g) ==
  /\ gm.game_id = g /\ gm.player_color = "white" /\ gm.engine
  /\ gm.state.status = "playing" /\ out.ret = "ok" /\ Len(gm.state.history) = 1

\* the reply threads of game g that have not returned
ThreadsOf(g) ==
  BagCardinality([t \in {x \in BagToSet(ai) : x.game_id = g} |-> ai[t]])

\* a reply thread has just put the second move on the board
C10_ReplyCommitted ==
  /\ Len(gm.state.history) = 2 /\ gm.state.turn = "white"
  /\ \E m \in Moves : Count("BEST:" \o San(m), out.tx) = 1

\* C10: process_move returns "ok" for a legal move that does not end the
\* game, in the step that starts the one reply thread and with that move
\* alone added to the history; after the first move of a game in which the
\* human plays White exactly one reply thread of the game is alive, and
\* unless a reset, a resignation, a draw, a timeout or another process_move
\* comes first, a reply is committed: the history reaches two moves with
\* White to move.
C10_ReplyFollows ==
  /\ [][ (ProcessMove /\ out'.ret = "ok")
           => /\ Len(gm'.state.history) = Len(gm.state.history) + 1
              /\ ai' = Spawn(ai, AiTask(gm.game_id)) ]_vars
  /\ \A g \in 1..MaxGen :
       /\ [](C10_Scenario(g) => ThreadsOf(g) = 1)
       /\ C10_Scenario(g) ~>
            \/ C10_ReplyCommitted
            \/ gm.game_id # g
            \/ gm.state.status # "playing" /\ Len(gm.state.history) = 1
            \/ out.ret \in {"illegal", "ok", "game_over"} /\ ~C10_Scenario(g)

\* the reply to the first move is on the board and the game goes on
C10_Witness ==
  /\ gm.player_color = "white" /\ gm.state.status = "playing" /\ gm.engine
  /\ C10_ReplyCommitted /\ gm.state.history[1].move = "d3e4"

\* the legal moves to the square a destination-only text names
MovesTo(b, text) == {m \in LegalMoves(b) : MoveTable[m].to = text.arg}

\* C11: when process_move resolves a destination-only text that more than
\* one legal move answers, the move it makes is that of the piece with the
\* highest priority (King > Queen > Rook > Knight > Bishop > Pawn), and among
\* the moves of that priority the first that board.legal_moves yields.
C11_HighestPriorityChosen ==
  [][ \A text \in MoveTexts :
        (/\ gm.state.status = "playing"
         /\ text.kind = "square"
         /\ parse_san(gm.board, text) = None
         /\ Cardinality(MovesTo(gm.board, text)) > 1
         /\ process_move(text)
         /\ gm'.board # gm.board)
          => LET made == gm'.board[Len(gm'.board)]
                 best == {m \in MovesTo(gm.board, text) :
                            \A n \in MovesTo(gm.board, text) :
                              get_priority(n) <= get_priority(m)}
                 l    == LegalMoveList(gm.board)
             IN  /\ made \in best
                 /\ \A i, j \in 1..Len(l) :
                      (l[i] \in best /\ l[j] = made) => j <= i ]_vars

\* ------------------------------------------------- _classify_move on its own
\* the deltas a caller hands to _classify_move
Deltas == -MaxDelta..MaxDelta

InitClassify ==
  /\ gm = GameManager(TRUE)
  /\ ai = EmptyBag
  /\ hints = EmptyBag
  /\ out = [ret |-> None, tx |-> <<>>, saved |-> <<>>]
  /\ loops = Loops
  /\ main = MainModule(TRUE)
  /\ \E d \in Deltas : client = [kind |-> "classify", delta |-> d, label |-> None]

\* label = self._classify_move(delta)
Classify ==
  /\ client.kind = "classify" /\ client.label = None
  /\ client' = [client EXCEPT !.label = _classify_move(client.delta)]
  /\ UNCHANGED <<gm, ai, hints, out, loops, main>>

SpecClassify == InitClassify /\ [][Classify]_vars

\* C12: _classify_move answers every integer delta, with BRILLIANT below 0,
\* GOOD for 0..30, INAC for 31..90, MISTAKE for 91..200 and BLUNDER above
\* 200, and the call leaves the session as it was.
C12_ClassifierMapping ==
  (client.kind = "classify" /\ client.label # None)
    => /\ client.delta < 0 => client.label = "BRILLIANT"
       /\ client.delta \in 0..30 => client.label = "GOOD"
       /\ client.delta \in 31..90 => client.label = "INAC"
       /\ client.delta \in 91..200 => client.label = "MISTAKE"
       /\ client.delta > 200 => client.label = "BLUNDER"
       /\ gm = GameManager(TRUE)

\* the classifier has answered at the upper end of GOOD
C12_Witness ==
  client.kind = "classify" /\ client.delta = 30 /\ client.label = "GOOD"

\* C13: resign and draw act only while the status is "playing": resign then
\* ends the game as "resigned" with the side opposite to the human's as the
\* winner, draw ends it as "draw", and each saves one row; in any other status
\* they change no field, send no line and save no row.  Once the game is
\* resigned or drawn, process_move returns "not_playing" and a tick changes
\* no clock.
C13_ResignDrawOnlyWhilePlaying ==
  [][ /\ (gm.state.status = "playing" /\ resign)
           => /\ gm'.state.status = "resigned"
              /\ gm'.state.winner = (IF gm.player_color = "white" THEN "black" ELSE "white")
              /\ Len(out'.saved) = 1
              /\ out'.saved[1].result =
                   (IF gm.player_color = "white" THEN "Black" ELSE "White")
                     \o " Wins (Resign)"
      /\ (gm.state.status = "playing" /\ draw)
           => /\ gm'.state.status = "draw"
              /\ Len(out'.saved) = 1
              /\ out'.saved[1].result = "Draw (Agreed)"
      /\ (gm.state.status # "playing" /\ (resign \/ draw))
           => gm' = gm /\ out'.tx = <<>> /\ out'.saved = <<>>
      /\ (gm.state.status \in {"resigned", "draw"} /\ Tick)
           => gm'.timer_white = gm.timer_white /\ gm'.timer_black = gm.timer_black
      /\ (gm.state.status \in {"resigned", "draw"} /\ ProcessMove)
           => out'.ret = "not_playing" /\ gm' = gm ]_vars

\* a move was refused after the human, playing White, had resigned
C13_Witness ==
  /\ gm.state.status = "resigned" /\ gm.state.winner = "black"
  /\ out.ret = "not_playing" /\ gm.state.history # <<>>

\* C14: a hint thread that completes when the status is not "playing", or in
\* a generation other than the one it was requested in, stores no hint and
\* sends no HINT line.
C14_StaleHintDiscarded ==
  [][ \A h \in BagToSet(hints) :
        (/\ gm.state.status # "playing" \/ gm.game_id # h.requested_in
         /\ HintStore(h))
          => /\ gm'.state.hint_move = gm.state.hint_move
             /\ \A m \in Moves : Count("HINT:" \o San(m), out'.tx) = 0 ]_vars

\* a reply thread is inside engine.play(self.board, ...), which it calls
\* between its two locked blocks with the live board as the argument
ReadsBoardUnlocked ==
  gm.engine /\ \E t \in BagToSet(ai) : t.pc = "calc"

\* C15: the board is read and changed under the lock only: no step changes
\* the board while a reply thread is inside its engine call on the live
\* board.  (The hint thread computes on the copy it took under the lock.)
C15_BoardUnderLock ==
  [][ ReadsBoardUnlocked => gm'.board = gm.board ]_vars

\* the steps the source takes inside `with self.lock:`
UnderLock ==
  \/ AnyReset
  \/ ProcessMove
  \/ AiWakeStep
  \/ AiCommitStep
  \/ Tick
  \/ request_hint
  \/ HintStoreStep
  \/ resign
  \/ draw
  \/ get_state

\* C16: every operation holds the lock while it writes a field of the
\* session: a step that changes a field, the search depth included, is a step
\* taken inside the lock.
C16_WritesUnderLock ==
  [][ gm' # gm => UnderLock ]_vars

\* C17: the dict get_state returned stays as it was returned, its history
\* and its display lines included, whatever the session does afterwards, and
\* it has no key for the board.
C17_SnapshotImmutable ==
  client.kind = "snapshot"
    => /\ client.now = client.returned
       /\ "board" \notin DOMAIN client.returned

\* C18: reset_game, from any state, leaves the status "playing", the
\* generation one higher, the history empty, the start position with White
\* to move, both clocks at the requested minutes in seconds, the requested
\* depth, increment and human side; it starts one reply thread, tagged with
\* the new generation, when the human plays Black and none when the human
\* plays White.
C18_ResetPostcondition ==
  [][ \A l \in StartLines :
        reset_game(l[1], l[2], l[3], l[4])
          => /\ gm'.state.status = "playing"
             /\ gm'.game_id = gm.game_id + 1
             /\ gm'.state.history = <<>>
             /\ gm'.board = StartBoard
             /\ gm'.state.turn = "white"
             /\ gm'.timer_white = 60 * l[2]
             /\ gm'.timer_black = 60 * l[2]
             /\ gm'.depth = l[1]
             /\ gm'.increment = l[3]
             /\ gm'.player_color = l[4]
             /\ ai' = IF l[4] = "black"
                      THEN ai (+) SetToBag({[pc |-> "sleep", game_id |-> gm'.game_id,
                                             move |-> None]})
                      ELSE ai ]_vars

\* a game was reset while its reply thread was running, into a game in
\* which the human plays Black
C18_Witness ==
  /\ gm.game_id = 2 /\ gm.player_color = "black" /\ gm.state.history = <<>>
  /\ ThreadsOf(1) = 1 /\ ThreadsOf(2) = 1
  /\ \A t \in BagToSet(ai) : t.game_id = 2 => t.pc = "sleep"

\* C19: without an engine every evaluation is 0 and no reply or hint thread
\* gets a move; process_move of a legal move still makes it and returns
\* "ok" or "game_over"; a reply thread ends at its engine call, and no step
\* of a reply or hint thread changes history, position, side to move,
\* status, clocks or generation or saves a row.
C19_NoEngineDegrades ==
  /\ [](~gm.engine =>
          /\ gm.state.eval.val = 0
          /\ \A i \in 1..Len(gm.state.history) : gm.state.history[i].eval = 0
          /\ \A t \in BagToSet(ai) : t.move = None /\ t.pc # "commit"
          /\ hints = EmptyBag)
  /\ [][ ~gm.engine =>
          /\ \A text \in MoveTexts :
               (/\ gm.state.status = "playing"
                /\ out'.ret \in ProcessMoveOutcomes
                /\ ~NoLegalMove(gm.board, text)
                /\ process_move(text))
                 => /\ out'.ret \in {"ok", "game_over"}
                    /\ gm'.board = Append(gm.board, ResolveMove(gm.board, text))
                    /\ Len(gm'.state.history) = Len(gm.state.history) + 1
          /\ (AiWakeStep \/ AiCalcStep \/ AiCommitStep \/ request_hint \/ HintStoreStep)
               => Session(gm') = Session(gm) /\ out'.saved = <<>>
          /\ \A t \in BagToSet(ai) : AiCalc(t) => ai' = Finish(ai, t) ]_vars

\* without an engine the reply thread of the first move has ended and a
\* second move was accepted after it
C19_Witness ==
  /\ ~gm.engine /\ gm.state.status = "playing"
  /\ Len(gm.state.history) = 2 /\ out.ret = "ok"
  /\ BagCardinality(ai) = 1

\* ------------------------------------------- the delta of _make_move on its own
\* what _get_eval returns: a centipawn score, or one of the two mate values
Evals == (-MaxCp..MaxCp) \cup {-10000, 10000}

InitDelta ==
  /\ gm = GameManager(TRUE)
  /\ ai = EmptyBag
  /\ hints = EmptyBag
  /\ out = [ret |-> None, tx |-> <<>>, saved |-> <<>>]
  /\ loops = Loops
  /\ main = MainModule(TRUE)
  /\ \E cp_before \in Evals, cp_after \in Evals, turn \in {"white", "black"} :
       client = [kind |-> "delta", cp_before |-> cp_before, cp_after |-> cp_after,
                 turn |-> turn, done |-> FALSE, delta |-> 0]

\* steps 1 to 4 of _make_move: turn is board.turn after the push
ComputeDelta ==
  /\ client.kind = "delta" /\ ~client.done
  /\ client' = [client EXCEPT
                  !.done = TRUE,
                  !.delta = Delta(client.cp_before, client.cp_after, client.turn)]
  /\ UNCHANGED <<gm, ai, hints, out, loops, main>>

SpecDelta == InitDelta /\ [][ComputeDelta]_vars

\* the evaluation, taken from White's side, moved in favour of the side that
\* made the move
Improved(cl) ==
  IF cl.turn = "black" THEN cl.cp_after > cl.cp_before
  ELSE cl.cp_after < cl.cp_before

\* the evaluation moved against the side that made the move
Worsened(cl) ==
  IF cl.turn = "black" THEN cl.cp_after < cl.cp_before
  ELSE cl.cp_after > cl.cp_before

\* C20: the delta handed to the classifier is positive exactly when the
\* evaluation moved in favour of the side that made the move.
C20_DeltaPositiveIffImproved ==
  (client.kind = "delta" /\ client.done)
    => (client.delta > 0 <=> Improved(client))

\* C20, amended: the delta handed to the classifier is the loss of the side
\* that made the move: positive exactly when the evaluation moved against
\* that side, negative exactly when it moved in its favour.
C20_DeltaIsLossOfMover ==
  (client.kind = "delta" /\ client.done)
    => /\ client.delta > 0 <=> Worsened(client)
       /\ client.delta < 0 <=> Improved(client)

\* Black has made a move after which White stands better than before
C20_Witness ==
  /\ client.kind = "delta" /\ client.done /\ client.turn = "white"
  /\ client.cp_before = 2 /\ client.cp_after = 5 /\ client.delta = 3

\* the statuses in which a game has ended
Terminal == {"game_over", "resigned", "draw"}

\* C21: a game hands one row to the database in the step that ends it and
\* no row in any other step: no step saves more than one row, a step saves a
\* row exactly when it takes the game from "playing" to an ended status, and
\* an ended game stays ended, with its status, until the next reset.
C21_OneRecordPerGame ==
  [][ /\ Len(out'.saved) <= 1
      /\ Len(out'.saved) = 1
           <=> /\ gm.state.status = "playing"
               /\ gm'.state.status \in Terminal
               /\ gm'.game_id = gm.game_id
      /\ (gm.state.status \in Terminal /\ gm'.game_id = gm.game_id)
           => gm'.state.status = gm.state.status ]_vars

\* the clock has ended a game in which a reply thread was asleep, and the
\* thread has woken up after it and returned
C21_Witness ==
  /\ out.ret = "stale" /\ out.saved = <<>>
  /\ gm.state.status = "game_over" /\ gm.timer_white = 0
  /\ Len(gm.state.history) = 2

\* ------------------------------------------------- the two loops on their own
\* SerialBridge._loop with no port: serial.Serial(...) opens it
BridgeConnect ==
  /\ loops.ser = "none"
  /\ loops' = [loops EXCEPT !.ser = "open"]
  /\ UNCHANGED <<gm, ai, hints, out, client, main>>

\* _loop reads a line and _process_message runs its handler to the end; the
\* handler takes the lock, which the clock thread holds while it sends
BridgeCommand ==
  /\ loops.ser = "open" /\ loops.timer # "send"
  /\ \/ ResetFull
     \/ ProcessMove
     \/ resign

\* _loop reads a line whose handler raises before it takes the lock, such as
\* a START line with a field int() rejects: the except clause of _loop logs
\* the error and sets self.ser = None, with no lock held
BridgeBadLine ==
  /\ loops.ser = "open"
  /\ loops' = [loops EXCEPT !.ser = "none", !.failed = TRUE]
  /\ UNCHANGED <<gm, ai, hints, out, client, main>>

\* one iteration of _timer_loop up to the test of SerialBridge.send in its
\* last call, _sync_time: `self.ser and ...` has read self.ser.  An iteration
\* that finds the status other than "playing" sends nothing; with no port
\* the test fails and send returns.
TimerTick ==
  /\ loops.timer = "idle"
  /\ Outcome(_timer_loop(Ctx(gm)), None)
  /\ loops' = IF gm.state.status = "playing" /\ loops.ser = "open"
              THEN [loops EXCEPT !.timer = "send"]
              ELSE loops
  /\ UNCHANGED <<ai, hints, main>>

\* the rest of the test, `... and self.ser.is_open`, which reads self.ser
\* again, outside the try of send: when _loop has set it to None meanwhile,
\* the AttributeError leaves send, _sync_time and _timer_loop, which has no
\* handler, and the clock thread ends
TimerSend ==
  /\ loops.timer = "send"
  /\ loops' = [loops EXCEPT !.timer = IF loops.ser = "none" THEN "dead" ELSE "idle"]
  /\ UNCHANGED <<gm, ai, hints, out, client, main>>

NextLoops ==
  \/ BridgeConnect
  \/ BridgeCommand
  \/ BridgeBadLine
  \/ TimerTick
  \/ TimerSend

SpecLoops == Init /\ [][NextLoops]_vars

\* C22: after a command handler has raised, the clock thread is still
\* running its loop.
C22_LoopsSurvive ==
  loops.failed => loops.timer # "dead"

\* C23: a step of process_move or of a reply thread that pushes a move adds
\* the increment to the clock of the side that made the move when the
\* increment is above zero and nothing otherwise, and leaves the clock of
\* the other side as it is.
C23_IncrementToMover ==
  [][ (/\ gm'.board # gm.board
       /\ Len(gm'.board) = Len(gm.board) + 1
       /\ ProcessMove \/ AiCommitStep)
        => LET credit == IF gm.increment > 0 THEN gm.increment ELSE 0
           IN  IF Turn(gm.board) = "white"
               THEN /\ gm'.timer_white = gm.timer_white + credit
                    /\ gm'.timer_black = gm.timer_black
               ELSE /\ gm'.timer_black = gm.timer_black + credit
                    /\ gm'.timer_white = gm.timer_white ]_vars

\* a reply thread has made Black's move and Black's clock has the increment
\* on it, as White's has had since White's move
C23_Witness ==
  /\ Len(gm.board) = 2 /\ gm.player_color = "white" /\ gm.increment = 2
  /\ gm.timer_black = 2 /\ gm.timer_white = 2
  /\ \E m \in Moves : Count("BEST:" \o San(m), out.tx) = 1

\* C24: a tick taken while the status is "playing" takes exactly one second
\* off the clock of the side to move and leaves the other clock, the
\* history, the position, the side to move and the generation as they are.
C24_TickTakesOneSecond ==
  [][ (gm.state.status = "playing" /\ Tick)
        => /\ IF gm.state.turn = "white"
              THEN /\ gm'.timer_white = gm.timer_white - 1
                   /\ gm'.timer_black = gm.timer_black
              ELSE /\ gm'.timer_black = gm.timer_black - 1
                   /\ gm'.timer_white = gm.timer_white
           /\ gm'.state.history = gm.state.history
           /\ gm'.board = gm.board
           /\ gm'.state.turn = gm.state.turn
           /\ gm'.game_id = gm.game_id ]_vars

\* C24, amended: a tick taken while the status is "playing" takes exactly
\* one second off the clock of the side to move when that clock is above
\* zero and changes no clock otherwise; it leaves the other clock, the
\* history, the position, the side to move and the generation as they are.
C24_TickTakesOneSecondIfAny ==
  [][ (gm.state.status = "playing" /\ Tick)
        => /\ IF gm.state.turn = "white"
              THEN /\ gm'.timer_white =
                        (IF gm.timer_white > 0 THEN gm.timer_white - 1 ELSE gm.timer_white)
                   /\ gm'.timer_black = gm.timer_black
              ELSE /\ gm'.timer_black =
                        (IF gm.timer_black > 0 THEN gm.timer_black - 1 ELSE gm.timer_black)
                   /\ gm'.timer_white = gm.timer_white
           /\ gm'.state.history = gm.state.history
           /\ gm'.board = gm.board
           /\ gm'.state.turn = gm.state.turn
           /\ gm'.game_id = gm.game_id ]_vars

\* a tick has taken a second off White's clock in a game that goes on
C24_Witness ==
  /\ gm.state.status = "playing" /\ gm.state.turn = "white"
  /\ gm.timer_white = 1 /\ gm.timer_black = 2
  /\ out.tx = <<"TIME:1,2">>

\* ------------------------------------- the synchronous variant, src/main.py
\* A helper takes and returns the module state m.

\* classify(delta), "based on centipawn loss"
classify(delta) ==
  IF delta < 0 THEN "BRILLIANT"
  ELSE IF delta <= 20 THEN "GOOD"
  ELSE IF delta <= 50 THEN "INAC"
  ELSE IF delta <= 100 THEN "MISTAKE"
  ELSE "BLUNDER"

\* abs(delta)
Abs(n) == IF n < 0 THEN -n ELSE n

get_cp(m, b) ==
  IF ~m.engine THEN 0
  ELSE LET score == Analyse(b)
       IN  IF score.is_mate THEN (IF score.mate > 0 THEN 10000 ELSE -10000)
           ELSE score.cp

serial_send(m, msg) == [m EXCEPT !.tx = Append(@, msg)]

\* (row + 16 spaces)[:16]; a row that the source passes with more than 16
\* characters ends in spaces, and is given here without them
update_lcd(m, row0, row1) ==
  [m EXCEPT !.state.lcd_row0 = IF row0 # None THEN Pad16(row0) ELSE @,
            !.state.lcd_row1 = IF row1 # None THEN Pad16(row1) ELSE @]

format_timer(secs) == Fmt02(secs \div 60) \o ":" \o Fmt02(secs % 60)

timer_lcd_row(m) ==
  "W" \o format_timer(m.state.timer_white) \o "  B" \o format_timer(m.state.timer_black)

\* best_uci.upper()
UpperUci ==
  [ d3e4 |-> "D3E4", f2e4 |-> "F2E4", h5f7 |-> "H5F7", a6a7 |-> "A6A7",
    d6e5 |-> "D6E5", h4f2 |-> "H4F2" ]

emoticons ==
  [ BRILLIANT |-> "(@_@)Brilliant!", GOOD |-> "(^_^) Good!    ",
    INAC |-> "(._o)Inaccuracy", MISTAKE |-> "(T_T) Mistake..",
    BLUNDER |-> "(X_X) Blunder!!" ]

\* the move the engine's turn in process_move gets: engine.play's answer, or
\* without an engine the first legal move, or None when there is none
BestMoves(m, b) ==
  IF m.engine THEN PlayResults(b, m.DEPTH)
  ELSE IF LegalMoveList(b) # <<>> THEN {LegalMoveList(b)[1]} ELSE {None}

\* lines 251 to 312 of process_move: the engine's turn, with best as the move it gets
EngineTurn(m, best) ==
  IF best = None
  THEN [m EXCEPT !.state.thinking = FALSE, !.ret = "no_move"]
  ELSE LET cp_before_engine == get_cp(m, m.board)
           b2 == Append(m.board, best)
           m1 == [m EXCEPT !.board = b2,
                           !.state.board_fen = Fen(b2),
                           !.state.best_move = best,
                           !.state.last_move = best,
                           !.state.turn = Turn(b2),
                           !.state.thinking = FALSE]
           m2 == update_lcd(serial_send(m1, "BEST:" \o UpperUci[best]),
                            "Best: " \o UpperUci[best], timer_lcd_row(m1))
           winner == IF Turn(b2) = "white" THEN "BLACK" ELSE "WHITE"
           m3 == IF is_checkmate(b2)
                 THEN update_lcd(
                        [serial_send(m2, "CHECKMATE:" \o winner)
                           EXCEPT !.state.status = "checkmate",
                                  !.state.winner = IF winner = "BLACK" THEN "black" ELSE "white"],
                        winner \o " Wins!", ">Play  Analysis ")
                 ELSE IF is_stalemate(b2) \/ is_insufficient_material(b2)
                 THEN update_lcd(
                        [serial_send(m2, "STALEMATE") EXCEPT !.state.status = "stalemate"],
                        "Stalemate!      ", ">Play  Analysis ")
                 ELSE m2
           cp_after_engine == get_cp(m, b2)
           delta_engine == cp_before_engine - cp_after_engine
           m4 == [m3 EXCEPT !.state.move_history =
                              Append(@, [move |-> best,
                                         eval_label |-> classify(Abs(delta_engine)),
                                         cp_before |-> cp_before_engine,
                                         cp_after |-> cp_after_engine]),
                            !.state.eval_cp = cp_after_engine]
           m5 == IF m.state.increment > 0
                 THEN IF m.state.player_color = "white"
                      THEN [m4 EXCEPT !.state.timer_black = @ + m.state.increment]
                      ELSE [m4 EXCEPT !.state.timer_white = @ + m.state.increment]
                 ELSE m4
       IN  [m5 EXCEPT !.ret = "ok"]

\* process_move(move_uci) of src/main.py.  No move of the rules table takes
\* a pawn to the last rank, so the promotion test of lines 150 to 161 passes
\* every text on; the table has no position that board.is_fifty_moves or
\* board.is_repetition accepts.
main_process_move(m, text, best) ==
  LET move == from_uci(text)
  IN  IF move = None \/ move \notin LegalMoves(m.board)
      THEN [update_lcd(serial_send(m, "ILLEGAL"), "Illegal Move!   ", None)
              EXCEPT !.ret = "illegal"]
      ELSE
        LET cp_before == get_cp(m, m.board)
            b1 == Append(m.board, move)
            m1 == [m EXCEPT !.board = b1,
                            !.state.board_fen = Fen(b1),
                            !.state.last_move = move,
                            !.state.turn = Turn(b1)]
            winner == IF Turn(b1) = "white" THEN "BLACK" ELSE "WHITE"
            cp_after == get_cp(m, b1)
        IN  IF is_checkmate(b1)
            THEN LET m2 == update_lcd(
                             [serial_send(m1, "CHECKMATE:" \o winner)
                                EXCEPT !.state.status = "checkmate",
                                       !.state.winner =
                                          IF winner = "BLACK" THEN "black" ELSE "white"],
                             winner \o " Wins!", ">Play  Analysis ")
                     delta == cp_before - cp_after
                 IN  [m2 EXCEPT !.state.move_history =
                                   Append(@, [move |-> move,
                                              eval_label |-> classify(Abs(delta)),
                                              cp_before |-> cp_before,
                                              cp_after |-> cp_after]),
                                !.ret = "checkmate"]
            ELSE IF is_stalemate(b1) \/ is_insufficient_material(b1)
            THEN [update_lcd(
                    [serial_send(m1, "STALEMATE") EXCEPT !.state.status = "stalemate"],
                    "Stalemate!      ", ">Play  Analysis ")
                    EXCEPT !.ret = "stalemate"]
            ELSE
              LET d0 == cp_before - cp_after
                  delta == IF m.state.player_color = "black" THEN -d0 ELSE d0
                  eval_label == classify(delta)
                  m2 == [serial_send(m1, "EVAL:" \o eval_label)
                           EXCEPT !.state.eval_label = eval_label,
                                  !.state.eval_cp = cp_after,
                                  !.state.thinking = TRUE]
                  m3 == [update_lcd(m2, emoticons[eval_label], None)
                           EXCEPT !.state.move_history =
                                    Append(@, [move |-> move,
                                               eval_label |-> eval_label,
                                               cp_before |-> cp_before,
                                               cp_after |-> cp_after])]
                  m4 == IF m.state.increment > 0
                        THEN IF m.state.player_color = "white"
                             THEN [m3 EXCEPT !.state.timer_white = @ + m.state.increment]
                             ELSE [m3 EXCEPT !.state.timer_black = @ + m.state.increment]
                        ELSE m3
              IN  EngineTurn(update_lcd(m4, "Thinking...     ", None), best)

\* reset_game of src/main.py; best is engine.play's answer when the engine
\* moves first
main_reset_game(m, difficulty, timer_mins, increment_secs, player_color, best) ==
  LET secs == IF timer_mins > 0 THEN timer_mins * 60 ELSE 0
      m1 == [m EXCEPT !.board = StartBoard,
                      !.DEPTH = difficulty,
                      !.game_counter = @ + 1,
                      !.state.board_fen = Fen(StartBoard),
                      !.state.turn = "white",
                      !.state.eval_label = None,
                      !.state.eval_cp = 0,
                      !.state.best_move = None,
                      !.state.last_move = None,
                      !.state.hint_move = None,
                      !.state.status = "playing",
                      !.state.winner = None,
                      !.state.move_history = <<>>,
                      !.state.timer_white = secs,
                      !.state.timer_black = secs,
                      !.state.increment = increment_secs,
                      !.state.difficulty = difficulty,
                      !.state.player_color = player_color,
                      !.state.game_id = m.game_counter + 1,
                      !.state.thinking = FALSE]
      m2 == update_lcd(m1, "Move: ____      ", timer_lcd_row(m1))
  IN  IF player_color = "black" /\ m.engine
      THEN LET m3 == update_lcd([m2 EXCEPT !.state.thinking = TRUE],
                                "Thinking...     ", None)
           IN  IF best # None
               THEN LET cp_before == get_cp(m3, StartBoard)
                        b1 == Append(StartBoard, best)
                        cp_after == get_cp(m3, b1)
                        m4 == [m3 EXCEPT !.board = b1,
                                         !.state.board_fen = Fen(b1),
                                         !.state.best_move = best,
                                         !.state.last_move = best,
                                         !.state.turn = Turn(b1),
                                         !.state.move_history =
                                            Append(@, [move |-> best,
                                                       eval_label |-> "GOOD",
                                                       cp_before |-> cp_before,
                                                       cp_after |-> cp_after])]
                        m5 == update_lcd(serial_send(m4, "BEST:" \o UpperUci[best]),
                                         "Best: " \o UpperUci[best], timer_lcd_row(m4))
                    IN  [m5 EXCEPT !.state.thinking = FALSE]
               ELSE [m3 EXCEPT !.state.thinking = FALSE]
      ELSE m2

\* the module state as a request handler finds it
Called == [main EXCEPT !.ret = None, !.tx = <<>>]

\* POST /api/start
api_start ==
  /\ main.game_counter < MaxGen
  /\ \E l \in StartLines :
       \E best \in (IF l[4] = "black" /\ main.engine
                    THEN PlayResults(StartBoard, l[1]) ELSE {None}) :
         main' = [serial_send(main_reset_game(Called, l[1], l[2], l[3], l[4], best),
                              "START:" \o ToString(l[1]) \o "," \o ToString(l[2]) \o ","
                                \o ToString(l[3]) \o "," \o
                                (IF l[4] = "white" THEN "W" ELSE "B"))
                    EXCEPT !.ret = "ok"]
  /\ UNCHANGED <<gm, ai, hints, out, client, loops>>

\* POST /api/move
api_move ==
  /\ \E text \in {t \in MoveTexts : t.kind \in {"uci", "junk"}} :
       IF main.state.status # "playing"
       THEN main' = [Called EXCEPT !.ret = "error"]
       ELSE /\ Len(main.board) < MaxPly
            /\ \E best \in (IF from_uci(text) \in LegalMoves(main.board)
                             THEN BestMoves(main, Append(main.board, from_uci(text)))
                             ELSE {None}) :
                 main' = main_process_move(Called, text, best)
  /\ UNCHANGED <<gm, ai, hints, out, client, loops>>

\* POST /api/resign
api_resign ==
  /\ IF main.state.status # "playing"
     THEN main' = [Called EXCEPT !.ret = "error"]
     ELSE main' = serial_send(
                    [update_lcd(Called,
                                (IF main.state.player_color = "white"
                                 THEN "WHITE" ELSE "BLACK") \o " Resigned",
                                ">Play  Analysis ")
                       EXCEPT !.state.status = "resigned",
                              !.state.winner = IF main.state.player_color = "white"
                                               THEN "black" ELSE "white",
                              !.ret = "ok"],
                    "RESIGN")
  /\ UNCHANGED <<gm, ai, hints, out, client, loops>>

\* POST /api/draw
api_draw ==
  /\ IF main.state.status # "playing"
     THEN main' = [Called EXCEPT !.ret = "error"]
     ELSE main' = serial_send(
                    [update_lcd(Called, "Draw Agreed     ", ">Play  Analysis ")
                       EXCEPT !.state.status = "draw", !.ret = "ok"],
                    "DRAW")
  /\ UNCHANGED <<gm, ai, hints, out, client, loops>>

InitMain ==
  /\ gm = GameManager(TRUE)
  /\ ai = EmptyBag
  /\ hints = EmptyBag
  /\ out = [ret |-> None, tx |-> <<>>, saved |-> <<>>]
  /\ client = NoClient
  /\ loops = Loops
  /\ \E e \in BOOLEAN : main = MainModule(e)

NextMain ==
  \/ api_start
  \/ api_move
  \/ api_resign
  \/ api_draw

SpecMain == InitMain /\ [][NextMain]_vars

\* C25: in the synchronous variant move_history has one record for every
\* move on the board.
C25_HistoryCountsMoves ==
  Len(main.state.move_history) = Len(main.board)

\* C26: process_move pushes a move only when it is the human's turn, a reply
\* thread pushes a move only when it is not, and at most one reply thread of
\* the current game is alive.
C26_SidesAlternate ==
  /\ [][ /\ (ProcessMove /\ gm'.board # gm.board) => gm.state.turn = gm.player_color
         /\ (AiCommitStep /\ gm'.board # gm.board) => gm.state.turn # gm.player_color
     ]_vars
  /\ [](ThreadsOf(gm.game_id) <= 1)

\* C27: the move a reply thread goes on to make in its second locked block,
\* having found the generation its own and the status "playing", is a legal
\* move of the position the board then holds.
C27_ReplyLegalAtCommit ==
  [][ \A t \in BagToSet(ai) :
        (/\ t.pc = "commit" /\ t.move # None
         /\ gm.game_id = t.game_id /\ gm.state.status = "playing"
         /\ AiCommit(t))
          => t.move \in LegalMoves(gm.board) ]_vars

\* --------------------------------------------- an evaluation call that raises
\* _make_move when self.engine.analyse raises inside _get_eval, which has no
\* handler, and neither have _make_move and its callers: at = 1, the call
\* for cp_before, before the push; at = 2, the call for cp_after, after
\* self.board.push(move) and before any key of self.state is written
_make_move_raises(c, move, at) ==
  IF at = 1 THEN c
  ELSE [c EXCEPT !.gm.board = Append(c.gm.board, move)]

\* process_move of a legal move during which an evaluation raises: the
\* exception leaves the `with self.lock:` block and process_move
process_move_raises(text, at) ==
  /\ gm.engine /\ gm.state.status = "playing"
  /\ LET move == ResolveMove(gm.board, text)
     IN  /\ move # None /\ move \in LegalMoves(gm.board)
         /\ Len(gm.board) < MaxPly
         /\ Effect(_make_move_raises(Ctx(gm), move, at), "raised")
  /\ UNCHANGED <<ai, hints>>

\* the second locked block of _ai_move_task during which an evaluation
\* raises: the BEST line and the display row are out, and the thread ends
AiCommit_raises(t, at) ==
  /\ gm.engine /\ t.pc = "commit"
  /\ gm.game_id = t.game_id /\ gm.state.status = "playing"
  /\ t.move # None /\ t.move \in LegalMoves(gm.board)
  /\ Len(gm.board) < MaxPly
  /\ LET san == San(t.move)
         c1  == _update_lcd(Send(Ctx(gm), "BEST:" \o san), "Last: " \o san, None)
     IN  Effect(_make_move_raises(c1, t.move, at), "raised")
  /\ ai' = Finish(ai, t)
  /\ UNCHANGED hints

ProcessMoveRaises == \E text \in MoveTexts, at \in 1..2 : process_move_raises(text, at)
AiCommitRaises == \E t \in BagToSet(ai), at \in 1..2 : AiCommit_raises(t, at)

NextRaise ==
  \/ ResetFull
  \/ ProcessMove
  \/ AiWakeStep
  \/ AiCalcStep
  \/ AiCommitStep
  \/ Tick
  \/ ProcessMoveRaises
  \/ AiCommitRaises

SpecRaise == Init /\ [][NextRaise]_vars

\* C28: also after an evaluation call has raised during a commit, the
\* history has one record per move on the board and the recorded side to
\* move and position are those of the board.
C28_ConsistentAfterRaise ==
  /\ Len(gm.state.history) = Len(gm.board)
  /\ gm.state.turn = Turn(gm.board)
  /\ gm.state.fen = Fen(gm.board)

\* C29: a reset leaves no winner and no hint in the state, and no winner is
\* recorded while the status is "playing".
C29_ResetClearsWinnerAndHint ==
  /\ [][ (AnyReset \/ ResetFull)
           => /\ gm'.state.winner = Absent
              /\ gm'.state.hint_move = Absent ]_vars
  /\ [](gm.state.status = "playing" => gm.state.winner = Absent)

\* ------------------------------------------- games with non-negative clocks
\* START lines with a timer and an increment that are not negative; as in
\* StartLines, it is the increment that puts on the clocks the seconds that
\* run out
ClockLines == { <<5, 0, 2, "white">>, <<3, 0, 0, "black">>, <<5, 0, 1, "black">> }

ResetClock == \E l \in ClockLines : reset_game(l[1], l[2], l[3], l[4])

\* the reply threads are in their sleep; the moves of both sides come from
\* process_move, which takes them from whoever sends them
NextClock ==
  \/ ResetClock
  \/ ProcessMove
  \/ Tick

SpecClock == Init /\ [][NextClock]_vars

\* the clock of a side
ClockOf(g, side) == IF side = "white" THEN g.timer_white ELSE g.timer_black

\* C30: while the status is "playing" the clock of the side to move is
\* above zero.
C30_MoverHasTime ==
  gm.state.status = "playing" => ClockOf(gm, gm.state.turn) > 0

\* C30, amended: while the status is "playing" the clock of the side to
\* move is not negative, and a clock that is zero in a playing game has been
\* zero since the reset that started the game: no move and no tick takes a
\* clock to zero and leaves the game playing.
C30_ZeroOnlyFromStart ==
  /\ [](gm.state.status = "playing" => ClockOf(gm, gm.state.turn) >= 0)
  /\ [][ \A side \in {"white", "black"} :
           (gm'.state.status = "playing" /\ ClockOf(gm', side) = 0)
             => ResetClock \/ ClockOf(gm, side) = 0 ]_vars

\* a game started with no time on the clocks goes on after White's move,
\* which has put the increment on White's clock, with Black to move on zero
C30_Witness ==
  /\ gm.state.status = "playing" /\ gm.state.turn = "black"
  /\ gm.timer_black = 0 /\ gm.timer_white = 2 /\ Len(gm.board) = 1

====
